---------------------------- MODULE Spec2Model ----------------------------
(***************************************************************************)
(* SLR(1) visual parser: grammar augmentation, FIRST/FOLLOW, the LR(0)     *)
(* automaton, the SLR(1) table with its conflict log, and the shift-reduce *)
(* simulator (src/grammar.ts, src/lr0.ts, src/unnamed/part_000,            *)
(* src/simulator.ts).                                                      *)
(*                                                                         *)
(* Symbols are strings, as in the source.  A Set<string> of the source is  *)
(* a duplicate-free sequence in insertion order (the order a JavaScript    *)
(* Set iterates in); an array is a sequence; an object used as a map is a  *)
(* function whose DOMAIN is the set of keys present.                       *)
(***************************************************************************)
EXTENDS Integers, Sequences, FiniteSets, TLC

VARIABLES
  pc,          \* which call of the pipeline runs next
  orig,        \* the Grammar handed to augmentGrammar
  grammar,     \* the Grammar the later stages work on
  first,       \* computeFirstFollow: first
  follow,      \* computeFirstFollow: follow
  changed,     \* computeFirstFollow: changed
  states,      \* buildDFA: states
  table,       \* buildTable: action, goto, conflicts (terminals, nonTerminals once returned)
  cursor,      \* buildTable: the state being processed and its items still to process
  installed,   \* history: the first entry written to each action cell
  inputStr,    \* simulateParsing: inputStr
  opts,        \* simulateParsing: opts (initialStack, initialSymbols; <<>> when absent)
  remaining,   \* simulateParsing: remaining
  tokens,      \* simulateParsing: tokens
  stack,       \* simulateParsing: stack
  symbols,     \* simulateParsing: symbols
  nodeStack,   \* simulateParsing: nodeStack (node ids)
  nodes,       \* every ParseTreeNode created so far; node-k is nodes[k+1]
  steps,       \* simulateParsing: steps
  inputIdx,    \* simulateParsing: inputIdx
  stepCount,   \* simulateParsing: stepCount
  prior,       \* the steps of the earlier run a resumed call continues, and the step resumed at
  kernel,      \* getClosure: items (the argument)
  closed       \* getClosure: the array it returned

vars == <<pc, orig, grammar, first, follow, changed, states, table, cursor, installed,
          inputStr, opts, remaining, tokens, stack, symbols, nodeStack, nodes, steps, inputIdx, stepCount,
          prior, kernel, closed>>

closureVars == <<kernel, closed>>
ffVars    == <<first, follow, changed>>
tableVars == <<table, cursor, installed>>
simVars   == <<inputStr, opts, remaining, tokens, stack, symbols, nodeStack, nodes, steps, inputIdx, stepCount,
               prior>>

---------------------------------------------------------------------------
(* Generic helpers for sequences used as arrays and insertion-ordered sets *)

Range(s) == {s[i] : i \in DOMAIN s}

\* Set.add on an insertion-ordered set
SetAdd(s, x) == IF x \in Range(s) THEN s ELSE Append(s, x)

RECURSIVE SetAddAll(_, _)
SetAddAll(s, xs) == IF xs = <<>> THEN s ELSE SetAddAll(SetAdd(s, Head(xs)), Tail(xs))

RECURSIVE Concat(_)
Concat(ss) == IF ss = <<>> THEN <<>> ELSE Head(ss) \o Concat(Tail(ss))

\* TRUE of every function, record and sequence.  In the guard of a fold it
\* makes the evaluator compute the accumulator before the fold goes on,
\* which keeps the evaluation of long folds shallow.
Computed(f) == DOMAIN f = DOMAIN f

\* Array.prototype.slice(from) with a 0-based index
Slice(s, from) == SubSeq(s, from + 1, Len(s))

---------------------------------------------------------------------------
(* src/grammar.ts *)

EPS == "ε"
EOI == "$"

\* A production line as parseGrammar has split it: <<head, body>>
Prod(h, b) == <<h, b>>

\* parseGrammar, from its two passes on: heads become nonterminals in line
\* order, every body symbol that is neither a head nor EPS becomes a
\* terminal in order of appearance, '$' is added last, and the start symbol
\* is the head of the first production.
parseGrammar(lines) ==
  LET nts   == SetAddAll(<<>>, [i \in DOMAIN lines |-> lines[i][1]])
      prods == [i \in DOMAIN lines |->
                  [id |-> i - 1, head |-> lines[i][1],
                   body |-> IF lines[i][2] = <<>> THEN <<EPS>> ELSE lines[i][2]]]
      syms  == Concat([i \in DOMAIN prods |-> prods[i].body])
      ts    == SetAddAll(<<>>, SelectSeq(syms, LAMBDA s : s \notin Range(nts) /\ s # EPS))
  IN  [productions   |-> prods,
       terminals     |-> SetAdd(ts, EOI),
       nonTerminals  |-> nts,
       startSymbol   |-> IF prods = <<>> THEN "" ELSE prods[1].head]

\* `${grammar.startSymbol}'`
PrimeOf(s) == s \o "'"

\* String.prototype.endsWith("'")
EndsWithPrime(s) == Len(s) >= 1 /\ SubSeq(s, Len(s), Len(s)) = "'"

augmentGrammar(g) ==
  LET newStartSymbol      == PrimeOf(g.startSymbol)
      augmentedProduction == [id |-> 0, head |-> newStartSymbol, body |-> <<g.startSymbol>>]
      newProductions      == <<augmentedProduction>> \o
                             [i \in DOMAIN g.productions |->
                                [g.productions[i] EXCEPT !.id = i]]
  IN  [productions  |-> newProductions,
       terminals    |-> g.terminals,
       nonTerminals |-> SetAdd(g.nonTerminals, newStartSymbol),
       startSymbol  |-> newStartSymbol]

\* first[symbol] || new Set([symbol])
FirstOf(f, symbol) == IF symbol \in DOMAIN f THEN f[symbol] ELSE {symbol}

\* lines 101-103: the maps before the first loop
InitFirst(g) ==
  [s \in Range(g.nonTerminals) \cup Range(g.terminals) \cup {EPS} |->
     IF s = EPS THEN {EPS}
     ELSE IF s \in Range(g.terminals) THEN {s}
     ELSE {}]

InitFollow(g) == [nt \in Range(g.nonTerminals) |-> {}]

\* lines 111-117 for one production: the for loop over p.body from index i,
\* acc being what has been added to first[head] so far
\* FirstScan with the break of line 115 taken after the first body symbol
\* whether or not it is nullable
FirstScanNoContinue(f, body, i, acc) ==
  IF i > Len(body) THEN acc \cup {EPS}
  ELSE LET symbolFirst == FirstOf(f, body[i])
       IN  acc \cup (symbolFirst \ {EPS})
               \cup (IF EPS \in symbolFirst /\ i = Len(body) THEN {EPS} ELSE {})

RECURSIVE FirstScan(_, _, _, _)
FirstScan(f, body, i, acc) ==
  IF i > Len(body) THEN acc \cup {EPS}
  ELSE LET symbolFirst == FirstOf(f, body[i])
           acc2        == acc \cup (symbolFirst \ {EPS})
       IN  IF EPS \notin symbolFirst THEN acc2
           ELSE FirstScan(f, body, i + 1, acc2)

\* lines 108-119 for one production, on the maps as updated so far
FirstProd(f, p) ==
  [f EXCEPT ![p.head] = FirstScan(f, p.body, 1, f[p.head])]

\* FirstPassFrom whose flag is overwritten by each production's comparison
RECURSIVE FirstPassFromLast(_, _, _)
FirstPassFromLast(r, prods, i) ==
  IF Computed(r) /\ i > Len(prods) THEN r
  ELSE LET p  == prods[i]
           f2 == FirstProd(r.first, p)
       IN  FirstPassFromLast([first   |-> f2,
                              changed |-> Cardinality(f2[p.head]) # Cardinality(r.first[p.head])],
                             prods, i + 1)

\* one pass of grammar.productions.forEach, lines 107-119, from production i;
\* r.changed is the flag of line 118 (a size comparison per production)
RECURSIVE FirstPassFrom(_, _, _)
FirstPassFrom(r, prods, i) ==
  IF Computed(r) /\ i > Len(prods) THEN r
  ELSE LET p  == prods[i]
           f2 == FirstProd(r.first, p)
       IN  FirstPassFrom([first   |-> f2,
                          changed |-> r.changed \/
                             Cardinality(f2[p.head]) # Cardinality(r.first[p.head])],
                         prods, i + 1)

FirstPass(f, g) == FirstPassFrom([first |-> f, changed |-> FALSE], g.productions, 1)

\* Array.from(grammar.nonTerminals).find(nt => !nt.endsWith("'")), <<>> when undefined
UserStart(g) ==
  LET c == SelectSeq(g.nonTerminals, LAMBDA nt : ~EndsWithPrime(nt))
  IN  IF c = <<>> THEN <<>> ELSE <<c[1]>>

\* lines 122-124
SeedFollow(fw, g) ==
  LET f1 == [fw EXCEPT ![g.startSymbol] = @ \cup {EOI}]
      us == UserStart(g)
  IN  IF us = <<>> THEN f1 ELSE [f1 EXCEPT ![us[1]] = @ \cup {EOI}]

\* lines 138-144: the for loop over beta from index k; returns what was
\* added and whether betaIsNullable is still true
RECURSIVE BetaScan(_, _, _, _)
BetaScan(f, beta, k, acc) ==
  IF k > Len(beta) THEN [add |-> acc, nullable |-> TRUE]
  ELSE LET symFirst == FirstOf(f, beta[k])
           acc2     == acc \cup (symFirst \ {EPS})
       IN  IF EPS \notin symFirst THEN [add |-> acc2, nullable |-> FALSE]
           ELSE BetaScan(f, beta, k + 1, acc2)

\* lines 132-149 for one production from body index i; r.changed is the
\* flag of line 148
RECURSIVE FollowBody(_, _, _, _, _)
FollowBody(r, f, g, p, i) ==
  IF Computed(r) /\ i > Len(p.body) THEN r
  ELSE LET B == p.body[i]
       IN  IF B \notin Range(g.nonTerminals) THEN FollowBody(r, f, g, p, i + 1)
           ELSE LET fw  == r.follow
                    sc  == BetaScan(f, Slice(p.body, i), 1, {})
                    fw1 == [fw EXCEPT ![B] = @ \cup sc.add]
                    fw2 == IF sc.nullable
                           THEN [fw1 EXCEPT ![B] = @ \cup (fw1[p.head] \ {EPS})]
                           ELSE fw1
                IN  FollowBody([follow  |-> fw2,
                                changed |-> r.changed \/
                                   Cardinality(fw2[B]) # Cardinality(fw[B])],
                               f, g, p, i + 1)

\* one pass of grammar.productions.forEach, lines 128-150, from production i
RECURSIVE FollowPassFrom(_, _, _, _)
FollowPassFrom(r, f, g, i) ==
  IF Computed(r) /\ i > Len(g.productions) THEN r
  ELSE FollowPassFrom(FollowBody(r, f, g, g.productions[i], 1), f, g, i + 1)

FollowPass(fw, f, g) == FollowPassFrom([follow |-> fw, changed |-> FALSE], f, g, 1)

\* the while loops of lines 106-120 and 127-151 run to completion
RECURSIVE FirstLoop(_, _)
FirstLoop(f, g) ==
  LET r == FirstPass(f, g)
  IN  IF r.changed THEN FirstLoop(r.first, g) ELSE r.first

RECURSIVE FollowLoop(_, _, _)
FollowLoop(fw, f, g) ==
  LET r == FollowPass(fw, f, g)
  IN  IF r.changed THEN FollowLoop(r.follow, f, g) ELSE r.follow

computeFirstFollow(g) ==
  LET f == FirstLoop(InitFirst(g), g)
  IN  [first |-> f, follow |-> FollowLoop(SeedFollow(InitFollow(g), g), f, g)]

---------------------------------------------------------------------------
(* src/lr0.ts *)

Item(p, d) == [productionId |-> p, dotPosition |-> d]

areItemsEqual(a, b) ==
  a.productionId = b.productionId /\ a.dotPosition = b.dotPosition

\* how many entries of the array are value-equal to the item
CountOf(items, it) == Cardinality({i \in DOMAIN items : areItemsEqual(items[i], it)})

\* areItemSetsEqual that compares the two arrays in place, without sorting
areItemSetsEqualUnsorted(a, b) ==
  Len(a) = Len(b) /\ \A i \in DOMAIN a : areItemsEqual(a[i], b[i])

\* areItemSetsEqual that stops after the length comparison
areItemSetsEqualByLength(a, b) == Len(a) = Len(b)

\* equal lengths, and equal element by element once both are sorted by
\* (productionId, dotPosition): the same items with the same multiplicities
areItemSetsEqual(a, b) ==
  /\ Len(a) = Len(b)
  /\ \A i \in DOMAIN a : CountOf(a, a[i]) = CountOf(b, a[i])

\* grammar.productions.find(p => p.id === id), <<>> when undefined
FindProd(g, id) ==
  LET c == SelectSeq(g.productions, LAMBDA p : p.id = id)
  IN  IF c = <<>> THEN <<>> ELSE <<c[1]>>

\* prod.body[item.dotPosition], <<>> when undefined
SymbolAfterDot(g, it) ==
  LET pr == FindProd(g, it.productionId)
  IN  IF pr = <<>> THEN <<>>
      ELSE IF it.dotPosition + 1 \in DOMAIN pr[1].body
           THEN <<pr[1].body[it.dotPosition + 1]>>
           ELSE <<>>

\* ClosureAdd that stops at the first production of `sym`
RECURSIVE ClosureAddFirst(_, _, _, _)
ClosureAddFirst(closure, g, sym, k) ==
  IF Computed(closure) /\ k > Len(g.productions) THEN closure
  ELSE LET p       == g.productions[k]
           newItem == Item(p.id, 0)
       IN  IF p.head # sym THEN ClosureAddFirst(closure, g, sym, k + 1)
           ELSE IF \A i \in DOMAIN closure : ~areItemsEqual(closure[i], newItem)
                THEN Append(closure, newItem)
                ELSE closure

\* lines 26-34: grammar.productions.forEach from production k, pushing the
\* items (p.id, 0) of the productions of `sym` that the closure lacks
RECURSIVE ClosureAdd(_, _, _, _)
ClosureAdd(closure, g, sym, k) ==
  IF Computed(closure) /\ k > Len(g.productions) THEN closure
  ELSE LET p       == g.productions[k]
           newItem == Item(p.id, 0)
       IN  IF p.head = sym /\ \A i \in DOMAIN closure : ~areItemsEqual(closure[i], newItem)
           THEN ClosureAdd(Append(closure, newItem), g, sym, k + 1)
           ELSE ClosureAdd(closure, g, sym, k + 1)

\* lines 19-36: the for loop over the growing closure array from index i;
\* closure.length is read again at every iteration, so pushed items are visited
RECURSIVE ClosureFrom(_, _, _)
ClosureFrom(closure, g, i) ==
  IF i > Len(closure) THEN closure
  ELSE LET sad == SymbolAfterDot(g, closure[i])
       IN  IF sad # <<>> /\ sad[1] \in Range(g.nonTerminals)
           THEN ClosureFrom(ClosureAdd(closure, g, sad[1], 1), g, i + 1)
           ELSE ClosureFrom(closure, g, i + 1)

\* lines 16-37: the while loop; `changed` is set exactly when a pass pushed
RECURSIVE ClosureWhile(_, _)
ClosureWhile(closure, g) ==
  LET pass == ClosureFrom(closure, g, 1)
  IN  IF Computed(pass) /\ Len(pass) # Len(closure) THEN ClosureWhile(pass, g) ELSE pass

getClosure(items, g) == ClosureWhile(items, g)

getGoto(items, symbol, g) ==
  LET hit(it)   == SymbolAfterDot(g, it) = <<symbol>>
      nextItems == [i \in DOMAIN SelectSeq(items, hit) |->
                      [SelectSeq(items, hit)[i] EXCEPT !.dotPosition = @ + 1]]
  IN  getClosure(nextItems, g)

\* FindState that gives the position counted from 1
FindStateOneBased(sts, nextItems) ==
  LET hits == {i \in DOMAIN sts : areItemSetsEqual(sts[i].items, nextItems)}
  IN  IF hits = {} THEN -1
      ELSE CHOOSE i \in hits : \A j \in hits : i <= j

\* states.findIndex(s => areItemSetsEqual(s.items, nextItems)), 0-based, -1 when none
FindState(sts, nextItems) ==
  LET hits == {i \in DOMAIN sts : areItemSetsEqual(sts[i].items, nextItems)}
  IN  IF hits = {} THEN -1
      ELSE (CHOOSE i \in hits : \A j \in hits : i <= j) - 1

\* lines 63-76 for one symbol of allSymbols, on state index i (0-based)
DFASymbol(sts, g, i, symbol) ==
  IF symbol = EOI \/ symbol = EPS THEN sts
  ELSE LET nextItems == getGoto(sts[i + 1].items, symbol, g)
       IN  IF Len(nextItems) = 0 THEN sts
           ELSE LET existingStateIndex == FindState(sts, nextItems)
                IN  IF existingStateIndex # -1
                    THEN [sts EXCEPT ![i + 1].transitions =
                            (symbol :> existingStateIndex) @@ @]
                    ELSE LET newStateId == Len(sts)
                         IN  Append([sts EXCEPT ![i + 1].transitions =
                                       (symbol :> newStateId) @@ @],
                                    [id |-> newStateId, items |-> nextItems,
                                     transitions |-> <<>>])

\* allSymbols.forEach, lines 63-76, from symbol k
RECURSIVE DFASymbols(_, _, _, _, _)
DFASymbols(sts, g, i, allSymbols, k) ==
  IF Computed(sts) /\ k > Len(allSymbols) THEN sts
  ELSE DFASymbols(DFASymbol(sts, g, i, allSymbols[k]), g, i, allSymbols, k + 1)

\* the worklist loop, lines 60-78
RECURSIVE DFALoop(_, _, _)
DFALoop(sts, g, i) ==
  IF i >= Len(sts) THEN sts
  ELSE DFALoop(DFASymbols(sts, g, i, g.nonTerminals \o g.terminals, 1), g, i + 1)

buildDFA(g) ==
  LET startItem    == Item(g.productions[1].id, 0)
      initialItems == getClosure(<<startItem>>, g)
  IN  DFALoop(<<[id |-> 0, items |-> initialItems, transitions |-> <<>>]>>, g, 0)

---------------------------------------------------------------------------
(* src/unnamed/part_000: buildTable *)

Shift(n)  == [type |-> "shift", value |-> n]
Reduce(p) == [type |-> "reduce", value |-> p]
Accept    == [type |-> "accept"]

\* lines 4-6.  conflicts holds the entries pushed; their order in the array
\* follows the iteration order of the FOLLOW sets and is read by no stage.
EmptyTable == [action |-> <<>>, goto |-> <<>>, conflicts |-> {}]

Conflict(st, sym, ty, ex, nw) ==
  [state |-> st, symbol |-> sym, type |-> ty, existing |-> ex, new |-> nw]

\* existing.type === 'shift' ? 'Shift-Reduce' : 'Reduce-Reduce'
ConflictType(existing) ==
  IF existing.type = "shift" THEN "Shift-Reduce" ELSE "Reduce-Reduce"

\* isComplete without the clause for the empty production
isCompleteDotAtEnd(item, prod) == item.dotPosition = Len(prod.body)

\* item.dotPosition === prod.body.length || (prod.body.length === 1 && prod.body[0] === 'ε')
isComplete(item, prod) ==
  \/ item.dotPosition = Len(prod.body)
  \/ (Len(prod.body) = 1 /\ prod.body[1] = EPS)

\* lines 9-19: the two rows of the state are created and its transitions installed
\* TableTransitions that files a transition under goto only when its symbol is
\* a nonterminal of the grammar before augmentation (no primed start symbol)
TableTransitionsUnprimed(tb, g, state) ==
  LET tr == state.transitions
      sh == {s \in DOMAIN tr : s \in Range(g.terminals)}
      gt == {s \in DOMAIN tr : s \notin Range(g.terminals)
                               /\ s \in Range(g.nonTerminals) /\ ~EndsWithPrime(s)}
  IN  [tb EXCEPT
         !.action = (state.id :> [s \in sh |-> Shift(tr[s])]) @@ @,
         !.goto   = (state.id :> [s \in gt |-> tr[s]]) @@ @]

TableTransitions(tb, g, state) ==
  LET tr == state.transitions
      sh == {s \in DOMAIN tr : s \in Range(g.terminals)}
      gt == {s \in DOMAIN tr : s \notin Range(g.terminals) /\ s \in Range(g.nonTerminals)}
  IN  [tb EXCEPT
         !.action = (state.id :> [s \in sh |-> Shift(tr[s])]) @@ @,
         !.goto   = (state.id :> [s \in gt |-> tr[s]]) @@ @]

\* TableAccept that leaves an occupied cell as it is, like a Reduce candidate
TableAcceptIfEmpty(tb, state) ==
  LET row == tb.action[state.id]
      hit == EOI \in DOMAIN row /\ row[EOI].type # "accept"
  IN  IF hit
      THEN [tb EXCEPT !.conflicts =
              @ \cup {Conflict(state.id, EOI, ConflictType(row[EOI]), row[EOI], Accept)}]
      ELSE [tb EXCEPT !.action[state.id] = (EOI :> Accept) @@ @]

\* lines 29-40: the completed item of a production whose head is the start symbol
TableAccept(tb, state) ==
  LET row == tb.action[state.id]
      hit == EOI \in DOMAIN row /\ row[EOI].type # "accept"
  IN  [tb EXCEPT
         !.conflicts = IF hit
                       THEN @ \cup {Conflict(state.id, EOI, ConflictType(row[EOI]),
                                             row[EOI], Accept)}
                       ELSE @,
         !.action[state.id] = (EOI :> Accept) @@ @]

\* TableReduceCell that writes the Reduce candidate into an occupied cell too
TableReduceCellOverwrite(tb, state, prod, terminal) ==
  LET row       == tb.action[state.id]
      newAction == Reduce(prod.id)
      logged    == IF terminal \in DOMAIN row
                   THEN {Conflict(state.id, terminal, ConflictType(row[terminal]),
                                  row[terminal], newAction)}
                   ELSE {}
  IN  [tb EXCEPT !.conflicts = @ \cup logged,
                 !.action[state.id] = (terminal :> newAction) @@ @]

\* lines 45-73 for one terminal of FOLLOW(prod.head)
TableReduceCell(tb, state, prod, terminal) ==
  LET row       == tb.action[state.id]
      newAction == Reduce(prod.id)
  IN  IF terminal \in DOMAIN row
      THEN LET existing    == row[terminal]
               type        == ConflictType(existing)
               isDuplicate == \E c \in tb.conflicts :
                                 /\ c.state = state.id
                                 /\ c.symbol = terminal
                                 /\ "value" \in DOMAIN c.new
                                 /\ c.new.value = prod.id
                                 /\ c.type = type
           IN  IF ~isDuplicate
               THEN [tb EXCEPT !.conflicts =
                       @ \cup {Conflict(state.id, terminal, type, existing, newAction)}]
               ELSE tb
      ELSE [tb EXCEPT !.action[state.id] = (terminal :> newAction) @@ @]

\* lines 44-74: follow.forEach over the terminals not yet visited
RECURSIVE TableReduce(_, _, _, _)
TableReduce(tb, state, prod, todo) ==
  IF Computed(tb) /\ todo = {} THEN tb
  ELSE LET terminal == CHOOSE t \in todo : TRUE
       IN  TableReduce(TableReduceCell(tb, state, prod, terminal), state, prod,
                       todo \ {terminal})

\* lines 22-78 for one item of the state
TableItem(tb, g, ff, state, item) ==
  LET prod == FindProd(g, item.productionId)[1]
  IN  IF ~isComplete(item, prod) THEN tb
      ELSE IF prod.head = g.startSymbol THEN TableAccept(tb, state)
      ELSE IF prod.head \in DOMAIN ff.follow
           THEN TableReduce(tb, state, prod, ff.follow[prod.head])
           ELSE tb

\* state.items.forEach, lines 22-78, from item k
RECURSIVE TableItems(_, _, _, _, _)
TableItems(tb, g, ff, state, k) ==
  IF Computed(tb) /\ k > Len(state.items) THEN tb
  ELSE TableItems(TableItem(tb, g, ff, state, state.items[k]), g, ff, state, k + 1)

\* states.forEach, lines 8-79, from state i
RECURSIVE TableStates(_, _, _, _, _)
TableStates(tb, g, sts, ff, i) ==
  IF Computed(tb) /\ i > Len(sts) THEN tb
  ELSE TableStates(TableItems(TableTransitions(tb, g, sts[i]), g, ff, sts[i], 1),
                   g, sts, ff, i + 1)

\* lines 81-87
TableReturn(tb, g) ==
  [action       |-> tb.action,
   goto         |-> tb.goto,
   terminals    |-> g.terminals,
   nonTerminals |-> SelectSeq(g.nonTerminals, LAMBDA nt : nt # g.startSymbol),
   conflicts    |-> tb.conflicts]

buildTable(g, sts, ff) == TableReturn(TableStates(EmptyTable, g, sts, ff, 1), g)

---------------------------------------------------------------------------
(* src/simulator.ts: simulateParsing *)

MAX_STEPS == 500

\* String.prototype.startsWith
StartsWith(s, t) == Len(t) <= Len(s) /\ SubSeq(s, 1, Len(t)) = t

\* String.prototype.trim, for the one whitespace character inputs are built from
RECURSIVE TrimStart(_)
TrimStart(s) == IF StartsWith(s, " ") THEN TrimStart(SubSeq(s, 2, Len(s))) ELSE s

RECURSIVE TrimEnd(_)
TrimEnd(s) ==
  IF Len(s) >= 1 /\ SubSeq(s, Len(s), Len(s)) = " "
  THEN TrimEnd(SubSeq(s, 1, Len(s) - 1)) ELSE s

Trim(s) == TrimEnd(TrimStart(s))

\* lines 25-31: the first terminal of sortedTerminals the remaining input
\* starts with, <<>> when none.  sortedTerminals is ordered by decreasing
\* length, and two distinct terminals of one length are not both a prefix,
\* so the first match is the longest matching terminal.
MatchTerminal(rest, g) ==
  LET cand == {t \in Range(g.terminals) \ {EOI, EPS} : StartsWith(rest, t)}
  IN  IF cand = {} THEN <<>>
      ELSE <<CHOOSE t \in cand : \A u \in cand : Len(u) <= Len(t)>>

\* lines 42-53: the state stack and the symbol stack before the loop
InitialStacks(o) ==
  LET stack0   == IF Len(o.initialStack) > 0 THEN o.initialStack ELSE <<0>>
      symbols0 == IF Len(o.initialSymbols) > 0 THEN o.initialSymbols
                  ELSE [i \in 1..Len(stack0) |-> EOI]
      symbols1 == IF Len(symbols0) < Len(stack0)
                  THEN [i \in 1..(Len(stack0) - Len(symbols0)) |-> EOI] \o symbols0
                  ELSE symbols0
      stack1   == IF Len(symbols1) > Len(stack0)
                  THEN [i \in 1..(Len(symbols1) - Len(stack0)) |-> 0] \o stack0
                  ELSE stack0
  IN  [stack |-> stack1, symbols |-> symbols1]

\* createNode: the node; its id is node-k for the k-th node created (from 0).
\* value is <<>> when undefined.
Node(label, children, value) == [label |-> label, children |-> children, value |-> value]

\* const val = s === '$' || s === EPS ? undefined : s
LeafValue(s) == IF s = EOI \/ s = EPS THEN <<>> ELSE <<s>>

\* InitialNodes without the second block (lines 74-82): leaves for provided
\* initial symbols only
InitialNodesProvidedOnly(o, symbols0) ==
  IF Len(o.initialSymbols) > 0
  THEN [i \in DOMAIN o.initialSymbols |->
          Node(o.initialSymbols[i], <<>>, LeafValue(o.initialSymbols[i]))]
  ELSE <<>>

\* lines 64-82: the placeholder leaves the node stack starts with
InitialNodes(o, symbols0) ==
  IF Len(o.initialSymbols) > 0
  THEN [i \in DOMAIN o.initialSymbols |->
          Node(o.initialSymbols[i], <<>>, LeafValue(o.initialSymbols[i]))]
  ELSE IF Len(symbols0) > 0
  THEN [i \in DOMAIN symbols0 |-> Node(symbols0[i], <<>>, LeafValue(symbols0[i]))]
  ELSE <<>>

\* prod.body.join(' ')
RECURSIVE Join(_)
Join(body) ==
  IF body = <<>> THEN ""
  ELSE IF Len(body) = 1 THEN body[1]
  ELSE body[1] \o " " \o Join(Tail(body))

\* a ParseStep
Step(n, st, sy, inp, act, expl, forest) ==
  [step |-> n, stack |-> st, symbols |-> sy, input |-> inp,
   action |-> act, explanation |-> expl, forest |-> forest]

\* tokens[inputIdx], <<>> when undefined
Lookahead(toks, idx) == IF idx + 1 \in DOMAIN toks THEN <<toks[idx + 1]>> ELSE <<>>

\* stack[stack.length - 1], <<>> when undefined
Top(st) == IF st = <<>> THEN <<>> ELSE <<st[Len(st)]>>

\* table.action[currentState]?.[lookahead], <<>> when undefined
ActionAt(tb, currentState, lookahead) ==
  IF /\ currentState # <<>> /\ lookahead # <<>>
     /\ currentState[1] \in DOMAIN tb.action
     /\ lookahead[1] \in DOMAIN tb.action[currentState[1]]
  THEN <<tb.action[currentState[1]][lookahead[1]]>>
  ELSE <<>>

\* table.goto[stateBeforeGoto]?.[prod.head], <<>> when undefined
GotoAt(tb, stateBeforeGoto, head) ==
  IF /\ stateBeforeGoto # <<>>
     /\ stateBeforeGoto[1] \in DOMAIN tb.goto
     /\ head \in DOMAIN tb.goto[stateBeforeGoto[1]]
  THEN <<tb.goto[stateBeforeGoto[1]][head]>>
  ELSE <<>>

\* `${x}` of a state number or of a token that may be undefined
ShowState(x) == IF x = <<>> THEN "undefined" ELSE ToString(x[1])
ShowToken(x) == IF x = <<>> THEN "undefined" ELSE x[1]

\* Array.prototype.pop applied n times: the array left
PopN(s, n) == SubSeq(s, 1, IF Len(s) > n THEN Len(s) - n ELSE 0)

\* the entries n pops remove, bottom first (children.unshift keeps their order)
Popped(s, n) == SubSeq(s, IF Len(s) > n THEN Len(s) - n + 1 ELSE 1, Len(s))

---------------------------------------------------------------------------
(* The pipeline as a state machine: one action per call or loop iteration *)

NoOpts == [initialStack |-> <<>>, initialSymbols |-> <<>>]

NoCursor == [state |-> 0, todo |-> {}]

\* no earlier run is being continued
NoPrior == [steps |-> <<>>, at |-> 0]

\* the values the variables of a stage hold before the stage has run
FFIdle    == first = <<>> /\ follow = <<>> /\ changed = FALSE
TableIdle == table = EmptyTable /\ cursor = NoCursor /\ installed = <<>>
SimIdle   == /\ inputStr = "" /\ opts = NoOpts /\ remaining = "" /\ tokens = <<>>
             /\ stack = <<>> /\ symbols = <<>> /\ nodeStack = <<>> /\ nodes = <<>>
             /\ steps = <<>> /\ inputIdx = 0 /\ stepCount = 0 /\ prior = NoPrior
ClosureIdle == kernel = <<>> /\ closed = <<>>

\* augmentGrammar(grammar)
Augment ==
  /\ pc = "augment"
  /\ grammar' = augmentGrammar(orig)
  /\ pc' = "ff"
  /\ UNCHANGED <<orig, closureVars, ffVars, states, tableVars, simVars>>

\* computeFirstFollow, lines 98-105
FFStart ==
  /\ pc = "ff"
  /\ first' = InitFirst(grammar)
  /\ follow' = InitFollow(grammar)
  /\ changed' = TRUE
  /\ pc' = "first"
  /\ UNCHANGED <<orig, closureVars, grammar, states, tableVars, simVars>>

\* one iteration of the while loop of lines 106-120
FirstPassStep ==
  /\ pc = "first" /\ changed
  /\ LET r == FirstPass(first, grammar)
     IN  first' = r.first /\ changed' = r.changed
  /\ UNCHANGED <<pc, orig, closureVars, grammar, follow, states, tableVars, simVars>>

\* the first loop has ended: lines 122-126
FollowSeedStep ==
  /\ pc = "first" /\ ~changed
  /\ follow' = SeedFollow(follow, grammar)
  /\ changed' = TRUE
  /\ pc' = "follow"
  /\ UNCHANGED <<orig, closureVars, grammar, first, states, tableVars, simVars>>

\* one iteration of the while loop of lines 127-151
FollowPassStep ==
  /\ pc = "follow" /\ changed
  /\ LET r == FollowPass(follow, first, grammar)
     IN  follow' = r.follow /\ changed' = r.changed
  /\ UNCHANGED <<pc, orig, closureVars, grammar, first, states, tableVars, simVars>>

\* the second loop has ended: line 152
FFReturn ==
  /\ pc = "follow" /\ ~changed
  /\ pc' = "dfa"
  /\ UNCHANGED <<orig, closureVars, grammar, ffVars, states, tableVars, simVars>>

\* buildDFA(grammar)
BuildDFA ==
  /\ pc = "dfa"
  /\ states' = buildDFA(grammar)
  /\ pc' = "table"
  /\ UNCHANGED <<orig, closureVars, grammar, ffVars, tableVars, simVars>>

\* buildTable(grammar, states, ff)
BuildTable ==
  /\ pc = "table"
  /\ table' = buildTable(grammar, states, [first |-> first, follow |-> follow])
  /\ pc' = "input"
  /\ UNCHANGED <<orig, closureVars, grammar, ffVars, states, cursor, installed, simVars>>

\* simulateParsing is called: lines 11-16
SimBegin(in, o) ==
  /\ pc = "input"
  /\ inputStr' = in
  /\ opts' = o
  /\ remaining' = Trim(in)
  /\ tokens' = <<>>
  /\ pc' = "tokenize"
  /\ UNCHANGED <<orig, closureVars, grammar, ffVars, states, tableVars,
                 stack, symbols, nodeStack, nodes, steps, inputIdx, stepCount, prior>>

\* one iteration of the while loop of lines 18-38
TokenStep ==
  /\ pc = "tokenize" /\ Len(remaining) > 0
  /\ IF StartsWith(remaining, " ")
     THEN /\ remaining' = SubSeq(remaining, 2, Len(remaining))
          /\ tokens' = tokens
     ELSE LET m == MatchTerminal(remaining, grammar)
              t == IF m # <<>> THEN m[1] ELSE SubSeq(remaining, 1, 1)
          IN  /\ tokens' = Append(tokens, t)
              /\ remaining' = Trim(SubSeq(remaining, Len(t) + 1, Len(remaining)))
  /\ UNCHANGED <<pc, orig, closureVars, grammar, ffVars, states, tableVars, inputStr, opts,
                 stack, symbols, nodeStack, nodes, steps, inputIdx, stepCount, prior>>

\* the tokenizer loop has ended: lines 39-91
TokensDone ==
  /\ pc = "tokenize" /\ Len(remaining) = 0
  /\ tokens' = Append(tokens, EOI)
  /\ LET init == InitialStacks(opts)
     IN  /\ stack' = init.stack
         /\ symbols' = init.symbols
         /\ nodes' = InitialNodes(opts, init.symbols)
         /\ nodeStack' = [i \in DOMAIN nodes' |-> i - 1]
  /\ steps' = <<>>
  /\ inputIdx' = 0
  /\ stepCount' = 0
  /\ pc' = "sim"
  /\ UNCHANGED <<orig, closureVars, grammar, ffVars, states, tableVars, inputStr, opts, remaining, prior>>

\* the action the loop reads at its top: lines 94-96
CurrentAction == ActionAt(table, Top(stack), Lookahead(tokens, inputIdx))

Snapshot(n, act, expl) ==
  Step(n, stack, symbols, Slice(tokens, inputIdx), act, expl, nodeStack)

simFrame == <<orig, closureVars, grammar, ffVars, states, tableVars, inputStr, opts, remaining, tokens, prior>>

\* lines 98-110: no action
SimError ==
  /\ pc = "sim" /\ stepCount < MAX_STEPS
  /\ CurrentAction = <<>>
  /\ steps' = Append(steps, Snapshot(stepCount, "Error",
                "Syntax Error: No action for state " \o ShowState(Top(stack)) \o
                " with token '" \o ShowToken(Lookahead(tokens, inputIdx)) \o "'."))
  /\ pc' = "returned"
  /\ UNCHANGED <<simFrame, stack, symbols, nodeStack, nodes, inputIdx, stepCount>>

\* lines 112-131
SimShift ==
  /\ pc = "sim" /\ stepCount < MAX_STEPS
  /\ CurrentAction # <<>> /\ CurrentAction[1].type = "shift"
  /\ LET nextState == CurrentAction[1].value
         lookahead == Lookahead(tokens, inputIdx)[1]
     IN  /\ steps' = Append(steps, Snapshot(stepCount, "Shift S" \o ToString(nextState),
                       "Token '" \o lookahead \o "' found. Shifting to state " \o
                       ToString(nextState) \o "."))
         /\ nodes' = Append(nodes, Node(lookahead, <<>>,
                                        IF lookahead = EOI THEN <<>> ELSE <<lookahead>>))
         /\ nodeStack' = Append(nodeStack, Len(nodes))
         /\ stack' = Append(stack, nextState)
         /\ symbols' = Append(symbols, lookahead)
  /\ inputIdx' = inputIdx + 1
  /\ stepCount' = stepCount + 1
  /\ UNCHANGED <<pc, simFrame>>

\* lines 132-194
SimReduce ==
  /\ pc = "sim" /\ stepCount < MAX_STEPS
  /\ CurrentAction # <<>> /\ CurrentAction[1].type = "reduce"
  /\ LET prod     == FindProd(grammar, CurrentAction[1].value)[1]
         isEpsilonReduction == Len(prod.body) = 1 /\ prod.body[1] = EPS
         popCount == IF isEpsilonReduction THEN 0 ELSE Len(prod.body)
         reduceStep == Snapshot(stepCount,
                         "Reduce R" \o ToString(prod.id) \o ": " \o prod.head \o
                         " → " \o Join(prod.body),
                         "Rule matches. Reducing " \o Join(prod.body) \o " to " \o
                         prod.head \o ".")
         stack1   == PopN(stack, popCount)
         symbols1 == PopN(symbols, popCount)
         nodes1   == PopN(nodeStack, popCount)
         popped   == Popped(nodeStack, popCount)
         epsLeaf  == IF isEpsilonReduction THEN <<Node(EPS, <<>>, <<>>)>> ELSE <<>>
         children == IF isEpsilonReduction THEN popped \o <<Len(nodes)>> ELSE popped
         newNode  == Node(prod.head, children, <<>>)
         newId    == Len(nodes) + Len(epsLeaf)
         stateBeforeGoto == Top(stack1)
         nextState == GotoAt(table, stateBeforeGoto, prod.head)
     IN  /\ nodes' = nodes \o epsLeaf \o <<newNode>>
         /\ IF nextState = <<>>
            THEN /\ steps' = steps \o <<reduceStep,
                      Step(stepCount + 1, stack1, symbols1, Slice(tokens, inputIdx),
                           "Error",
                           "Goto Error: No transition for state " \o ShowState(stateBeforeGoto)
                           \o " on symbol '" \o prod.head \o "'.",
                           nodes1)>>
                 /\ stack' = stack1 /\ symbols' = symbols1 /\ nodeStack' = nodes1
                 /\ stepCount' = stepCount + 1
                 /\ pc' = "returned"
            ELSE /\ stack' = Append(stack1, nextState[1])
                 /\ symbols' = Append(symbols1, prod.head)
                 /\ nodeStack' = Append(nodes1, newId)
                 /\ steps' = steps \o <<reduceStep,
                      Step(stepCount + 1, stack', symbols', Slice(tokens, inputIdx),
                           "GoTo(" \o prod.head \o ", " \o ShowState(stateBeforeGoto) \o
                           ") = " \o ToString(nextState[1]),
                           "Transitioning to state " \o ToString(nextState[1]) \o
                           " after reducing to " \o prod.head \o ".",
                           nodeStack')>>
                 /\ stepCount' = stepCount + 2
                 /\ pc' = pc
  /\ UNCHANGED <<simFrame, inputIdx>>

\* lines 195-207
SimAccept ==
  /\ pc = "sim" /\ stepCount < MAX_STEPS
  /\ CurrentAction # <<>> /\ CurrentAction[1].type = "accept"
  /\ steps' = Append(steps, Snapshot(stepCount, "Accept",
                                     "The input string has been successfully parsed!"))
  /\ pc' = "returned"
  /\ UNCHANGED <<simFrame, stack, symbols, nodeStack, nodes, inputIdx, stepCount>>

\* the loop condition of line 93 is false: the function returns steps (line 224)
SimCeiling ==
  /\ pc = "sim" /\ stepCount >= MAX_STEPS
  /\ pc' = "returned"
  /\ UNCHANGED <<simFrame, stack, symbols, nodeStack, nodes, steps, inputIdx, stepCount>>

---------------------------------------------------------------------------
(* The grammars and inputs the pipeline is run on *)

MaxProds    == 2   \* productions of a generated grammar
MaxInputLen == 3   \* words of an input string

\* README.md, Example Grammar
ExprLines == <<Prod("E", <<"E", "+", "T">>), Prod("E", <<"T">>),
               Prod("T", <<"T", "*", "F">>), Prod("T", <<"F">>),
               Prod("F", <<"(", "E", ")">>), Prod("F", <<"id">>)>>

\* the nullable preset: A -> a A | ε
EpsLines == <<Prod("A", <<"a", "A">>), Prod("A", <<EPS>>)>>

\* the dangling-else shape: S -> i S | i S e S | x
IfLines == <<Prod("S", <<"i", "S">>), Prod("S", <<"i", "S", "e", "S">>),
             Prod("S", <<"x">>)>>

\* a list: S -> S a | a
ListLines == <<Prod("S", <<"S", "a">>), Prod("S", <<"a">>)>>

\* a grammar that already names a nonterminal S': S -> a S',  S' -> b
ClashLines == <<Prod("S", <<"a", "S'">>), Prod("S'", <<"b">>)>>

\* a grammar whose start symbol is written with a prime: S' -> A b,  A -> a
PrimedLines == <<Prod("S'", <<"A", "b">>), Prod("A", <<"a">>)>>

\* a second grammar that uses the primed start name: S -> c S' | a,  S' -> c S
PrimeLoopLines == <<Prod("S", <<"c", "S'">>), Prod("S", <<"a">>), Prod("S'", <<"c", "S">>)>>

\* grammar text with no production line
EmptyLines == <<>>

CatalogueLines == {ExprLines, EpsLines, IfLines, ListLines, ClashLines, PrimedLines,
                   PrimeLoopLines, EmptyLines}

\* the productions generated grammars are made of
Pool == {Prod("S", <<"a">>), Prod("S", <<"A", "b">>), Prod("S", <<"S", "a">>),
         Prod("S", <<"a", "S">>), Prod("S", <<"A">>), Prod("S", <<EPS>>),
         Prod("S", <<"A", "A">>), Prod("A", <<"a">>), Prod("A", <<EPS>>),
         Prod("A", <<"A", "b">>), Prod("A", <<"S">>), Prod("A", <<"b", "A">>)}

GeneratedLines == UNION {[1..n -> Pool] : n \in 1..MaxProds}

Catalogue == {parseGrammar(l) : l \in CatalogueLines}
Generated == {parseGrammar(l) : l \in GeneratedLines}
Grammars  == Catalogue \cup Generated

\* input strings: up to MaxInputLen words separated by one space.  The words
\* are the grammar's terminals; for the catalogue grammars also '$' (which
\* parseGrammar puts in every terminal set) and a character of no terminal.
WordsOf(g) ==
  IF g \in Catalogue THEN Range(g.terminals) \cup {"?"}
  ELSE Range(g.terminals) \ {EOI}

WordSeqs(ws) == UNION {[1..n -> ws] : n \in 0..MaxInputLen}

ScenarioInputs(g) ==
  IF g = parseGrammar(ExprLines) THEN {"id * ( id + id )", "id*(id+id)", " id+id "}
  ELSE IF g = parseGrammar(EpsLines) THEN {"a a"}
  ELSE {}

InputsOf(g) == {Join(w) : w \in WordSeqs(WordsOf(g))} \cup ScenarioInputs(g)

---------------------------------------------------------------------------
(* The whole pipeline on one grammar, then from-scratch simulations *)

Init ==
  /\ pc = "augment"
  /\ orig \in Grammars
  /\ grammar = orig
  /\ states = <<>>
  /\ FFIdle /\ TableIdle /\ SimIdle /\ ClosureIdle

SimStart == pc = "input" /\ \E in \in InputsOf(orig) : SimBegin(in, NoOpts)

Next ==
  \/ Augment \/ FFStart \/ FirstPassStep \/ FollowSeedStep \/ FollowPassStep \/ FFReturn
  \/ BuildDFA \/ BuildTable
  \/ SimStart \/ TokenStep \/ TokensDone
  \/ SimError \/ SimShift \/ SimReduce \/ SimAccept

Spec == Init /\ [][Next]_vars

---------------------------------------------------------------------------
(* Reference FIRST and FOLLOW: the least fixed points, computed by         *)
(* simultaneous (round by round) iteration from the empty family           *)

NTs(g) == Range(g.nonTerminals)

ProdsOf(g, A) == {i \in DOMAIN g.productions : g.productions[i].head = A}

\* FIRST of one symbol under the family F of the nonterminals
RefFirstOf(F, g, s) ==
  IF s \in NTs(g) THEN F[s] ELSE IF s = EPS THEN {EPS} ELSE {s}

RefNullable(F, g, seq) == \A j \in DOMAIN seq : EPS \in RefFirstOf(F, g, seq[j])

\* the non-empty symbols a string of symbols can begin with
RefFirstOfSeq(F, g, seq) ==
  {a \in UNION {RefFirstOf(F, g, seq[k]) : k \in DOMAIN seq} \ {EPS} :
     \E k \in DOMAIN seq : /\ a \in RefFirstOf(F, g, seq[k])
                           /\ RefNullable(F, g, SubSeq(seq, 1, k - 1))}

RefFirstStep(F, g) ==
  [A \in NTs(g) |->
     UNION {RefFirstOfSeq(F, g, g.productions[i].body) : i \in ProdsOf(g, A)}
     \cup (IF \E i \in ProdsOf(g, A) : RefNullable(F, g, g.productions[i].body)
           THEN {EPS} ELSE {})]

RECURSIVE RefFirstFrom(_, _)
RefFirstFrom(F, g) ==
  LET F2 == RefFirstStep(F, g)
  IN  IF F2 = F THEN F ELSE RefFirstFrom(F2, g)

RefFirst(g) == RefFirstFrom([A \in NTs(g) |-> {}], g)

\* the original start symbol of an augmented grammar: the body of production 0
OriginalStart(g) == g.productions[1].body[1]

\* every occurrence <<production, position>> of a symbol in a body
Positions(g) ==
  UNION {{<<i, k>> : k \in DOMAIN g.productions[i].body} : i \in DOMAIN g.productions}

RefFollowSeed(g, B) ==
  IF B = g.startSymbol \/ B = OriginalStart(g) THEN {EOI} ELSE {}

RefFollowStep(W, F, g) ==
  [B \in NTs(g) |->
     RefFollowSeed(g, B) \cup
     UNION {LET p    == g.productions[pi[1]]
                beta == SubSeq(p.body, pi[2] + 1, Len(p.body))
            IN  RefFirstOfSeq(F, g, beta) \cup
                (IF RefNullable(F, g, beta) THEN W[p.head] ELSE {})
            : pi \in {q \in Positions(g) : g.productions[q[1]].body[q[2]] = B}}]

RECURSIVE RefFollowFrom(_, _, _)
RefFollowFrom(W, F, g) ==
  LET W2 == RefFollowStep(W, F, g)
  IN  IF W2 = W THEN W ELSE RefFollowFrom(W2, F, g)

RefFollow(g) == RefFollowFrom([B \in NTs(g) |-> {}], RefFirst(g), g)

---------------------------------------------------------------------------
(* Claims about augmentGrammar and computeFirstFollow                      *)

Augmented == pc # "augment"

FFReturned == pc \in {"dfa", "table", "input", "tokenize", "sim", "returned"}

OrigSymbols == Range(orig.nonTerminals) \cup Range(orig.terminals)

\* C7: augmentGrammar returns a grammar with exactly one more production than
\* its input and a start symbol distinct from every terminal and nonterminal
\* of the input, also when the input already uses the primed start name; the
\* only production whose head is that start symbol is production 0, and its
\* body is exactly the original start symbol.
C7_FreshStart ==
  Augmented =>
    /\ Len(grammar.productions) = Len(orig.productions) + 1
    /\ grammar.startSymbol \notin OrigSymbols
    /\ grammar.productions[1] =
         [id |-> 0, head |-> grammar.startSymbol, body |-> <<orig.startSymbol>>]
    /\ \A i \in DOMAIN grammar.productions :
         grammar.productions[i].head = grammar.startSymbol => i = 1

\* C8: the FOLLOW map returned by computeFirstFollow is the least family
\* closed under the FOLLOW rules whose only seeds are '$' in FOLLOW of the
\* augmented start symbol and of the original start symbol (the body of
\* production 0); no FOLLOW set contains the empty-string symbol.
C8_FollowIsLeast ==
  FFReturned =>
    /\ \A B \in NTs(grammar) : follow[B] = RefFollow(grammar)[B]
    /\ \A B \in NTs(grammar) : EPS \notin follow[B]

\* C9: the FIRST map returned by computeFirstFollow is the reference FIRST:
\* FIRST(t) = {t} for each terminal t, and for the nonterminals the least
\* family closed under the production rules (nullable prefixes let later body
\* symbols contribute, an all-nullable body contributes the empty string).
C9_FirstIsReference ==
  FFReturned =>
    /\ \A t \in Range(grammar.terminals) : first[t] = {t}
    /\ \A A \in NTs(grammar) : first[A] = RefFirst(grammar)[A]

\* C9 witness: FIRST has been returned for a grammar in which a terminal
\* enters FIRST of a head through a nullable nonterminal in front of it
C9_Witness ==
  /\ FFReturned
  /\ \E i \in DOMAIN grammar.productions :
       LET p == grammar.productions[i]
       IN  /\ Len(p.body) >= 2
           /\ p.body[1] \in NTs(grammar)
           /\ EPS \in first[p.body[1]]
           /\ p.body[2] \in Range(grammar.terminals)
           /\ p.body[2] \notin first[p.body[1]]
           /\ p.body[2] \in first[p.head]

---------------------------------------------------------------------------
(* Reference derivability: which nonterminal derives which stretch of a    *)
(* word, as the least set closed under the productions                     *)

\* body derives w[i+1..j], given the triples D already known
RECURSIVE SeqDerives(_, _, _, _, _, _)
SeqDerives(D, g, w, body, i, j) ==
  IF body = <<>> THEN i = j
  ELSE LET s == Head(body)
       IN  IF s = EPS THEN SeqDerives(D, g, w, Tail(body), i, j)
           ELSE IF s \in NTs(g)
           THEN \E k \in i..j : <<s, i, k>> \in D /\ SeqDerives(D, g, w, Tail(body), k, j)
           ELSE i < j /\ w[i + 1] = s /\ SeqDerives(D, g, w, Tail(body), i + 1, j)

DeriveStep(D, g, w) ==
  {t \in NTs(g) \X (0..Len(w)) \X (0..Len(w)) :
     /\ t[2] <= t[3]
     /\ \E i \in ProdsOf(g, t[1]) :
          SeqDerives(D, g, w, g.productions[i].body, t[2], t[3])}

RECURSIVE DeriveFrom(_, _, _)
DeriveFrom(D, g, w) ==
  LET D2 == DeriveStep(D, g, w)
  IN  IF D2 = D THEN D ELSE DeriveFrom(D2, g, w)

\* the word w is derivable from the start symbol of g
Derivable(g, w) == <<g.startSymbol, 0, Len(w)>> \in DeriveFrom({}, g, w)

---------------------------------------------------------------------------
(* Claims about simulateParsing started from scratch                       *)

Returned == pc = "returned"

LastStep == steps[Len(steps)]

Accepted == Returned /\ steps # <<>> /\ LastStep.action = "Accept"

\* the tokens in front of the end marker the tokenizer appended
Word == SubSeq(tokens, 1, Len(tokens) - 1)

FromScratch == opts = NoOpts

\* C2: for an augmented grammar whose table has an empty conflict list, a
\* from-scratch simulation of any token sequence that stays within the step
\* ceiling ends in an Accept step exactly when the token sequence is
\* derivable from the original start symbol, and in an Error step otherwise.
C2_AcceptIffDerivable ==
  (Returned /\ FromScratch /\ table.conflicts = {} /\ stepCount < MAX_STEPS) =>
    /\ steps # <<>>
    /\ LastStep.action = (IF Derivable(orig, Word) THEN "Accept" ELSE "Error")

ExprRun == orig = parseGrammar(ExprLines) /\ inputStr = "id * ( id + id )"

ForestLabels(st) == [k \in DOMAIN st.forest |-> nodes[st.forest[k] + 1].label]

\* C3 as the specification states it: for the expression grammar the input
\* 'id * ( id + id )' ends in an Accept step whose parse forest holds exactly
\* one root, labelled E.
C3_SingleRoot ==
  (Returned /\ FromScratch /\ ExprRun) =>
    Accepted /\ ForestLabels(LastStep) = <<"E">>

\* C3, amended: for the expression grammar the input 'id * ( id + id )' ends
\* in an Accept step whose parse forest holds, above the childless '$'
\* placeholder created for the initial stack entry, exactly one root,
\* labelled E.
C3_RootAbovePlaceholder ==
  (Returned /\ FromScratch /\ ExprRun) =>
    /\ Accepted
    /\ ForestLabels(LastStep) = <<EOI, "E">>
    /\ nodes[LastStep.forest[1] + 1] = Node(EOI, <<>>, <<>>)
    /\ LastStep.forest[1] = 0

\* C3 witness: the simulation of 'id * ( id + id )' has returned with Accept
C3_Witness == Returned /\ FromScratch /\ ExprRun /\ Accepted

---------------------------------------------------------------------------
(* buildTable step by step: one action per state entered and per item      *)
(* visited.  buildTable is exported and takes the state list as an         *)
(* argument: the items of a state are visited in the order of the caller's *)
(* array, and its transitions may name any symbol.                         *)

Cells(tb) == UNION {{<<s, t>> : t \in DOMAIN tb.action[s]} : s \in DOMAIN tb.action}

CellAt(tb, c) == tb.action[c[1]][c[2]]

\* the first action written to every cell so far
FirstInstalled(tb2) ==
  [c \in Cells(tb2) |-> IF c \in DOMAIN installed THEN installed[c] ELSE CellAt(tb2, c)]

HasCompleteItem(g, st) ==
  \E k \in DOMAIN st.items : isComplete(st.items[k], FindProd(g, st.items[k].productionId)[1])

\* the state lists buildTable is called with: the one buildDFA returns, and
\* that list with a transition on '$' added to a state that holds a complete item
StateLists(g) ==
  LET sts == buildDFA(g)
  IN  {sts} \cup {[sts EXCEPT ![i].transitions = (EOI :> 0) @@ @] :
                    i \in {j \in DOMAIN sts : HasCompleteItem(g, sts[j])}}

TableInit ==
  /\ pc = "rows"
  /\ orig \in Grammars
  /\ grammar = augmentGrammar(orig)
  /\ first = computeFirstFollow(grammar).first
  /\ follow = computeFirstFollow(grammar).follow
  /\ changed = FALSE
  /\ states \in StateLists(grammar)
  /\ TableIdle /\ SimIdle /\ ClosureIdle

tableFrame == <<orig, closureVars, grammar, ffVars, states, simVars>>

\* lines 8-19: the next state is entered
TableBeginState ==
  /\ pc = "rows" /\ cursor.todo = {} /\ cursor.state < Len(states)
  /\ LET state == states[cursor.state + 1]
         tb2   == TableTransitions(table, grammar, state)
     IN  /\ table' = tb2
         /\ installed' = FirstInstalled(tb2)
         /\ cursor' = [state |-> cursor.state + 1, todo |-> DOMAIN state.items]
  /\ UNCHANGED <<pc, tableFrame>>

\* lines 22-78 for one item of the current state
TableItemStep ==
  /\ pc = "rows" /\ cursor.todo # {}
  /\ \E k \in cursor.todo :
       LET state == states[cursor.state]
           tb2   == TableItem(table, grammar, [first |-> first, follow |-> follow],
                              state, state.items[k])
       IN  /\ table' = tb2
           /\ installed' = FirstInstalled(tb2)
           /\ cursor' = [cursor EXCEPT !.todo = @ \ {k}]
  /\ UNCHANGED <<pc, tableFrame>>

\* lines 81-87
TableFinish ==
  /\ pc = "rows" /\ cursor.todo = {} /\ cursor.state = Len(states)
  /\ table' = TableReturn(table, grammar)
  /\ pc' = "built"
  /\ UNCHANGED <<tableFrame, cursor, installed>>

TableNext == TableBeginState \/ TableItemStep \/ TableFinish

SpecTable == TableInit /\ [][TableNext]_vars

---------------------------------------------------------------------------
(* Claims about buildTable                                                 *)

Built == pc = "built"

\* C4: once an action has been installed in a cell (state, terminal), no
\* later Reduce candidate for that cell changes it: at every point of
\* buildTable, and in the table it returns, every cell holds the first action
\* installed there, the only exception being a cell (state, $) into which
\* Accept has been written.
C4_FirstInstalledWins ==
  \A c \in Cells(table) :
    \/ CellAt(table, c) = installed[c]
    \/ c[2] = EOI /\ CellAt(table, c) = Accept

\* C4 witness: the table is returned, and a Reduce candidate met an occupied
\* cell, which still holds the action installed first
C4_Witness ==
  /\ Built
  /\ \E c \in table.conflicts :
       /\ c.new.type = "reduce"
       /\ table.action[c.state][c.symbol] # c.new
       /\ table.action[c.state][c.symbol] = installed[<<c.state, c.symbol>>]

\* the completed item of the augmented start production (production 0)
AcceptItem == Item(0, Len(grammar.productions[1].body))

AcceptStates == {i \in DOMAIN states : AcceptItem \in Range(states[i].items)}

\* Accept is written by this step into the cell (s, $), which held occupant
AcceptOver(s, occupant) ==
  /\ s \in DOMAIN table.action /\ EOI \in DOMAIN table.action[s]
  /\ table.action[s][EOI] = occupant /\ occupant # Accept
  /\ table'.action[s][EOI] = Accept

\* C5: for every state that contains the completed item of the augmented
\* start production the returned action table holds Accept at (state, $),
\* whatever order the items of the state are visited in; and whenever Accept
\* is written into a cell a different action occupies, a conflict is recorded
\* for (state, $), of type Shift-Reduce when the occupant is a Shift and
\* Reduce-Reduce otherwise.
C5_AcceptWins ==
  /\ [](Built => \A i \in AcceptStates : table.action[states[i].id][EOI] = Accept)
  /\ [][\A s \in DOMAIN table.action :
          \A occupant \in {Shift(n) : n \in 0..Len(states)} \cup
                          {Reduce(p) : p \in 0..Len(grammar.productions)} :
            AcceptOver(s, occupant) =>
              Conflict(s, EOI,
                       IF occupant.type = "shift" THEN "Shift-Reduce" ELSE "Reduce-Reduce",
                       occupant, Accept) \in table'.conflicts]_vars

\* C5 witness: the table is returned with Accept in a cell (state, $) that a
\* Reduce occupied when the completed start item was visited
C5_Witness ==
  /\ Built
  /\ \E c \in table.conflicts :
       /\ c.symbol = EOI /\ c.new = Accept /\ c.existing.type = "reduce"
       /\ c.type = "Reduce-Reduce"
       /\ table.action[c.state][EOI] = Accept

\* the actions applicable in the cell (state, terminal)
Applicable(st, t) ==
  {Shift(st.transitions[u]) : u \in {v \in DOMAIN st.transitions : v = t}}
  \cup {Reduce(st.items[k].productionId) :
          k \in {j \in DOMAIN st.items :
                   LET prod == FindProd(grammar, st.items[j].productionId)[1]
                   IN  /\ st.items[j].productionId # 0
                       /\ isComplete(st.items[j], prod)
                       /\ prod.head \in DOMAIN follow
                       /\ t \in follow[prod.head]}}
  \cup (IF t = EOI /\ AcceptItem \in Range(st.items) THEN {Accept} ELSE {})

Contested == {c \in (DOMAIN states) \X Range(grammar.terminals) :
                Cardinality(Applicable(states[c[1]], c[2])) >= 2}

\* C6: buildTable always completes, and its conflict list is empty exactly
\* when no cell (state, terminal) has two or more distinct applicable actions
\* (Shift for a transition on the terminal, Reduce(p) for each completed item
\* of p whose head has the terminal in FOLLOW, Accept at $ for the completed
\* augmented-start item); every cell with two or more distinct applicable
\* actions yields at least one logged conflict.
C6_ConflictsExact ==
  /\ ~Built => ENABLED TableNext
  /\ Built =>
       /\ (table.conflicts = {}) <=> (Contested = {})
       /\ \A c \in Contested :
            \E k \in table.conflicts : k.state = states[c[1]].id /\ k.symbol = c[2]

---------------------------------------------------------------------------
(* simulateParsing resumed from caller-supplied stacks, on the tables the  *)
(* pipeline builds                                                         *)

MaxInitLen == 2   \* entries of a supplied initial stack

ResumeGrammars == {parseGrammar(ListLines), parseGrammar(EpsLines)}

SeqsUpTo(S, n) == UNION {[1..k -> S] : k \in 0..n}

\* opts.initialStack over the state ids, opts.initialSymbols over the symbols
ResumeOpts(g, sts) ==
  {[initialStack |-> st, initialSymbols |-> sy] :
     st \in SeqsUpTo(0..(Len(sts) - 1), MaxInitLen),
     sy \in SeqsUpTo(Range(g.terminals) \cup NTs(g), MaxInitLen)}

ResumeInputs(g) == {Join(w) : w \in WordSeqs(Range(g.terminals) \ {EOI})}

ResumeInit ==
  /\ pc = "input"
  /\ orig \in ResumeGrammars
  /\ grammar = augmentGrammar(orig)
  /\ first = computeFirstFollow(grammar).first
  /\ follow = computeFirstFollow(grammar).follow
  /\ changed = FALSE
  /\ states = buildDFA(grammar)
  /\ table = buildTable(grammar, states, [first |-> first, follow |-> follow])
  /\ cursor = NoCursor /\ installed = <<>>
  /\ SimIdle /\ ClosureIdle

ResumeStart ==
  /\ pc = "input"
  /\ \E in \in ResumeInputs(orig), o \in ResumeOpts(grammar, states) : SimBegin(in, o)

ResumeNext ==
  \/ ResumeStart \/ TokenStep \/ TokensDone
  \/ SimError \/ SimShift \/ SimReduce \/ SimAccept

SpecResume == ResumeInit /\ [][ResumeNext]_vars

\* C10: for every choice of the optional initial state stack and initial
\* symbol stack (absent, equal length, or either one shorter than the other),
\* in every step simulateParsing emits the state stack, the symbol stack and
\* the forest have the same length.
C10_StacksAligned ==
  \A k \in DOMAIN steps :
    /\ Len(steps[k].stack) = Len(steps[k].symbols)
    /\ Len(steps[k].forest) = Len(steps[k].symbols)

---------------------------------------------------------------------------
(* simulateParsing on inputs long enough to meet the iteration ceiling     *)

LongLen == 170   \* tokens of the long input: three steps a token on the list grammar

\* the string of n copies of s
RECURSIVE Rep(_, _)
Rep(s, n) ==
  IF n = 0 THEN ""
  ELSE LET h == Rep(s, n \div 2)
       IN  IF n % 2 = 0 THEN h \o h ELSE h \o h \o s

CeilingInputs == {Rep("a", n) : n \in {0, 1, 2, LongLen}} \cup {"a ?"}

CeilingInit ==
  /\ pc = "input"
  /\ orig = parseGrammar(ListLines)
  /\ grammar = augmentGrammar(orig)
  /\ first = computeFirstFollow(grammar).first
  /\ follow = computeFirstFollow(grammar).follow
  /\ changed = FALSE
  /\ states = buildDFA(grammar)
  /\ table = buildTable(grammar, states, [first |-> first, follow |-> follow])
  /\ cursor = NoCursor /\ installed = <<>>
  /\ SimIdle /\ ClosureIdle

CeilingStart == pc = "input" /\ \E in \in CeilingInputs : SimBegin(in, NoOpts)

CeilingNext ==
  \/ CeilingStart \/ TokenStep \/ TokensDone
  \/ SimError \/ SimShift \/ SimReduce \/ SimAccept \/ SimCeiling

SpecCeiling == CeilingInit /\ [][CeilingNext]_vars

Halted(st) == st.action = "Accept" \/ st.action = "Error"

\* C1: if simulateParsing reaches its iteration ceiling before an Accept or
\* an Error step has been emitted, the returned step list ends with an
\* explicit error (defensive halt) step; the returned list never ends in a
\* Shift, Reduce or GoTo step.
C1_CeilingIsHalt ==
  Returned => steps # <<>> /\ Halted(LastStep)

---------------------------------------------------------------------------
(* A from-scratch run, then simulateParsing called again with the stacks   *)
(* and the remaining input of one of its steps                             *)

\* the subtree under node-id, without the node ids
RECURSIVE Tree(_, _)
Tree(ns, id) ==
  LET n == ns[id + 1]
  IN  [label |-> n.label, value |-> n.value,
       children |-> [i \in DOMAIN n.children |-> Tree(ns, n.children[i])]]

\* what a caller compares of a step: number, stacks, remaining input, action, forest
StepView(st, ns) ==
  [step |-> st.step, stack |-> st.stack, symbols |-> st.symbols, input |-> st.input,
   action |-> st.action, forest |-> [i \in DOMAIN st.forest |-> Tree(ns, st.forest[i])]]

StepViews(sts, ns) == [k \in DOMAIN sts |-> StepView(sts[k], ns)]

ReplayGrammars == {parseGrammar(ListLines), parseGrammar(EpsLines), parseGrammar(ExprLines)}

ReplayInit ==
  /\ pc = "input"
  /\ orig \in ReplayGrammars
  /\ grammar = augmentGrammar(orig)
  /\ first = computeFirstFollow(grammar).first
  /\ follow = computeFirstFollow(grammar).follow
  /\ changed = FALSE
  /\ states = buildDFA(grammar)
  /\ table = buildTable(grammar, states, [first |-> first, follow |-> follow])
  /\ cursor = NoCursor /\ installed = <<>>
  /\ SimIdle /\ ClosureIdle

ReplayFirst == pc = "input" /\ \E in \in ResumeInputs(orig) : SimBegin(in, NoOpts)

\* simulateParsing(tail, grammar, table, {initialStack, initialSymbols}) with the
\* stacks of step j (1-based) and its remaining input, whose last token is the
\* end marker the tokenizer appends itself
ReplayResume ==
  /\ pc = "returned" /\ prior = NoPrior
  /\ \E j \in DOMAIN steps :
       LET tail == Join(SubSeq(steps[j].input, 1, Len(steps[j].input) - 1))
       IN  /\ prior' = [steps |-> StepViews(steps, nodes), at |-> j]
           /\ inputStr' = tail
           /\ opts' = [initialStack |-> steps[j].stack, initialSymbols |-> steps[j].symbols]
           /\ remaining' = Trim(tail)
  /\ tokens' = <<>>
  /\ pc' = "tokenize"
  /\ UNCHANGED <<orig, closureVars, grammar, ffVars, states, tableVars,
                 stack, symbols, nodeStack, nodes, steps, inputIdx, stepCount>>

ReplayNext ==
  \/ ReplayFirst \/ ReplayResume \/ TokenStep \/ TokensDone
  \/ SimError \/ SimShift \/ SimReduce \/ SimAccept

SpecReplay == ReplayInit /\ [][ReplayNext]_vars

Resumed == Returned /\ prior.at > 0

\* C11: for any input and any step k of its from-scratch run, the call of
\* simulateParsing with the state stack and symbol stack captured at step k
\* and the remaining input of step k returns a step sequence that, appended
\* after steps 0..k-1 of the original run, equals the from-scratch run's step
\* sequence step for step (step number, stacks, remaining input, action and
\* forest).
C11_ResumeReplays ==
  Resumed =>
    SubSeq(prior.steps, 1, prior.at - 1) \o StepViews(steps, nodes) = prior.steps

---------------------------------------------------------------------------
(* Claims about tokens outside the terminal alphabet                       *)

Unknown(t) == t \notin Range(grammar.terminals)

UnknownAt == {k \in DOMAIN Word : Unknown(Word[k])}

\* 1-based position in tokens of the first token outside the alphabet
FirstUnknown == CHOOSE k \in UnknownAt : \A j \in UnknownAt : k <= j

IsSyntaxError(st) == st.action = "Error" /\ StartsWith(st.explanation, "Syntax Error")

IsShift(st) == StartsWith(st.action, "Shift ")

\* C12: for a table built from the grammar and any input that contains a
\* token not in the grammar's terminal alphabet, simulateParsing returns with
\* a final syntax-error step, the unknown token is never shifted, and the
\* remaining input of the error step begins at or before the first unknown
\* token.
C12_UnknownTokenHalts ==
  (Returned /\ FromScratch /\ UnknownAt # {}) =>
    /\ steps # <<>> /\ IsSyntaxError(LastStep)
    /\ \A k \in DOMAIN steps : IsShift(steps[k]) => ~Unknown(steps[k].input[1])
    /\ Len(LastStep.input) >= Len(tokens) - FirstUnknown + 1

---------------------------------------------------------------------------
(* Claims about reductions by the empty production                         *)

EpsRun == orig = parseGrammar(EpsLines) /\ inputStr = "a a"

IsEmptyProd(p) == p.body = <<EPS>>

\* the action label of a Reduce step by production p
ReduceLabel(p) == "Reduce R" \o ToString(p.id) \o ": " \o p.head \o " → " \o Join(p.body)

\* the steps (1-based) that are Reduce steps by an empty production
EmptyReductions ==
  {k \in DOMAIN steps :
     \E i \in DOMAIN grammar.productions :
        /\ IsEmptyProd(grammar.productions[i])
        /\ steps[k].action = ReduceLabel(grammar.productions[i])}

\* C13: for the grammar A -> a A | ε run through the whole pipeline, the
\* from-scratch simulation of 'a a' ends in Accept and contains exactly one
\* Reduce step by the empty production; that reduction pops nothing, and the
\* node it creates is labelled A and has the empty-marker leaf as its only
\* child.
C13_OneEmptyReduction ==
  (Returned /\ FromScratch /\ EpsRun) =>
    /\ Accepted
    /\ Cardinality(EmptyReductions) = 1
    /\ \A k \in EmptyReductions :
         LET before == steps[k]
             after  == steps[k + 1]
             made   == nodes[after.forest[Len(after.forest)] + 1]
         IN  /\ SubSeq(after.stack, 1, Len(after.stack) - 1) = before.stack
             /\ SubSeq(after.symbols, 1, Len(after.symbols) - 1) = before.symbols
             /\ SubSeq(after.forest, 1, Len(after.forest) - 1) = before.forest
             /\ made.label = "A"
             /\ Len(made.children) = 1
             /\ nodes[made.children[1] + 1] = Node(EPS, <<>>, <<>>)

\* C13 witness: the simulation of 'a a' has returned with Accept after a
\* reduction by the empty production
C13_Witness == Returned /\ FromScratch /\ EpsRun /\ Accepted /\ EmptyReductions # {}

---------------------------------------------------------------------------
(* Claims about a grammar without productions                              *)

EmptyGrammar == orig.productions = <<>>

\* C14: augmentGrammar applied to a grammar that has no productions reports
\* an explicit empty-grammar failure to the caller instead of returning an
\* augmented grammar: the call leaves the pipeline failed, with no augmented
\* grammar for the later stages.
C14_EmptyGrammarFails ==
  (EmptyGrammar /\ pc # "augment") => (pc = "failed" /\ grammar = orig)

---------------------------------------------------------------------------
(* Claims about the goto lookup after a reduction                          *)

IsGotoError(st) == st.action = "Error" /\ StartsWith(st.explanation, "Goto Error")

IsReduce(st) == StartsWith(st.action, "Reduce R")

IsGoTo(st) == StartsWith(st.action, "GoTo(")

\* the production a pending reduce action names
PendingProd == FindProd(grammar, CurrentAction[1].value)[1]

PendingPop ==
  IF Len(PendingProd.body) = 1 /\ PendingProd.body[1] = EPS
  THEN 0 ELSE Len(PendingProd.body)

ReducePending ==
  /\ pc = "sim" /\ stepCount < MAX_STEPS
  /\ CurrentAction # <<>> /\ CurrentAction[1].type = "reduce"

\* C15: with the automaton and the table built from the same augmented
\* grammar, a from-scratch simulation never emits a goto-error step: whenever
\* a reduction by p is about to run, the goto table has an entry for the state
\* exposed after popping and the head of p, and every Reduce step recorded is
\* followed by a GoTo step.
C15_NoGotoError ==
  FromScratch =>
    /\ \A k \in DOMAIN steps : ~IsGotoError(steps[k])
    /\ \A k \in DOMAIN steps :
         IsReduce(steps[k]) => (k + 1 \in DOMAIN steps /\ IsGoTo(steps[k + 1]))
    /\ ReducePending =>
         GotoAt(table, Top(PopN(stack, PendingPop)), PendingProd.head) # <<>>

C15_Witness ==
  /\ FromScratch /\ ReducePending
  /\ \E k \in DOMAIN steps : IsReduce(steps[k])

---------------------------------------------------------------------------
(* buildDFA's worklist loop, one forEach iteration at a time: cursor holds  *)
(* the loop index i and the position k in allSymbols                        *)

allSymbols == grammar.nonTerminals \o grammar.terminals

\* lines 54-60
DFAInit ==
  /\ pc = "worklist"
  /\ orig \in Grammars
  /\ grammar = augmentGrammar(orig)
  /\ states = <<[id |-> 0,
                 items |-> getClosure(<<Item(grammar.productions[1].id, 0)>>, grammar),
                 transitions |-> <<>>]>>
  /\ cursor = [i |-> 0, k |-> 1]
  /\ table = EmptyTable /\ installed = <<>>
  /\ FFIdle /\ SimIdle /\ ClosureIdle

dfaFrame == <<orig, closureVars, grammar, ffVars, table, installed, simVars>>

\* lines 63-76: one symbol of allSymbols on the current state
DFASymbolStep ==
  /\ pc = "worklist" /\ cursor.i < Len(states) /\ cursor.k <= Len(allSymbols)
  /\ states' = DFASymbol(states, grammar, cursor.i, allSymbols[cursor.k])
  /\ cursor' = [cursor EXCEPT !.k = @ + 1]
  /\ UNCHANGED <<pc, dfaFrame>>

\* line 77: i++
DFANextState ==
  /\ pc = "worklist" /\ cursor.i < Len(states) /\ cursor.k > Len(allSymbols)
  /\ cursor' = [i |-> cursor.i + 1, k |-> 1]
  /\ UNCHANGED <<pc, states, dfaFrame>>

\* lines 61, 79: the loop condition fails, the list is returned
DFAReturn ==
  /\ pc = "worklist" /\ cursor.i >= Len(states)
  /\ pc' = "automaton"
  /\ UNCHANGED <<states, cursor, dfaFrame>>

DFANext == DFASymbolStep \/ DFANextState \/ DFAReturn

SpecDFA == DFAInit /\ [][DFANext]_vars

DFAReturned == pc = "automaton"

GrammarSymbols == Range(grammar.nonTerminals) \cup Range(grammar.terminals)

ItemsOf(items) == {<<items[i].productionId, items[i].dotPosition>> : i \in DOMAIN items}

TargetsOf(sts) == {sts[i].transitions[X] : <<i, X>> \in
                     UNION {{i} \X (DOMAIN sts[i].transitions) : i \in DOMAIN sts}}

\* C16: in the list buildDFA returns, for every state s and every grammar
\* symbol X other than $ and ε, s.transitions[X] is defined exactly when
\* getGoto(s.items, X) is non-empty, and then the target state's items are
\* getGoto(s.items, X) as an unordered set of (productionId, dotPosition)
\* pairs; every state other than state 0 is the target of some transition.
C16_TransitionsAreGoto ==
  DFAReturned =>
    /\ states = buildDFA(grammar)
    /\ \A i \in DOMAIN states : \A X \in GrammarSymbols \ {EOI, EPS} :
         LET s  == states[i]
             gt == getGoto(s.items, X, grammar)
         IN  /\ (X \in DOMAIN s.transitions) <=> (gt # <<>>)
             /\ X \in DOMAIN s.transitions =>
                  /\ s.transitions[X] + 1 \in DOMAIN states
                  /\ ItemsOf(states[s.transitions[X] + 1].items) = ItemsOf(gt)
    /\ \A i \in DOMAIN states : i > 1 => (i - 1) \in TargetsOf(states)

\* an automaton with a transition into a state found by findIndex (one that
\* two transitions share) has been returned
C16_Witness ==
  /\ DFAReturned /\ Len(states) > 1
  /\ \E i, j \in DOMAIN states : \E X \in DOMAIN states[i].transitions :
       \E Y \in DOMAIN states[j].transitions :
         <<i, X>> # <<j, Y>> /\ states[i].transitions[X] = states[j].transitions[Y]


\* C17: at every point of buildDFA's worklist loop and in its result,
\* states[i].id = i for every index i, state 0's item set is the closure of
\* the single item (production 0, dot 0), every state's item set is non-empty,
\* and no two distinct states have value-equal item sets.
C17_StatesWellFormed ==
  /\ \A i \in DOMAIN states : states[i].id = i - 1
  /\ states # <<>> /\ states[1].items = getClosure(<<Item(0, 0)>>, grammar)
  /\ \A i \in DOMAIN states : states[i].items # <<>>
  /\ \A i, j \in DOMAIN states :
       i # j => ItemsOf(states[i].items) # ItemsOf(states[j].items)

\* inside the loop, after states were pushed and an existing one was found
C17_Witness ==
  /\ pc = "worklist" /\ cursor.i > 0 /\ cursor.k > 1 /\ Len(states) > 2
  /\ \E i \in DOMAIN states : \E X \in DOMAIN states[i].transitions :
       states[i].transitions[X] < i

---------------------------------------------------------------------------
(* getClosure as a function of its argument: a duplicate-free array of      *)
(* items of the grammar is drawn, getClosure is applied to it and then to   *)
(* its own result                                                           *)

MaxItems == 2

\* the items (p, d) with 0 <= d <= body length of the grammar's productions
AllItems(g) ==
  UNION {{Item(g.productions[i].id, d) : d \in 0..Len(g.productions[i].body)} :
           i \in DOMAIN g.productions}

\* the arrays of at most n distinct elements of S
RECURSIVE DistinctSeqs(_, _)
DistinctSeqs(S, n) ==
  IF n = 0 THEN {<<>>}
  ELSE LET shorter == DistinctSeqs(S, n - 1)
       IN  shorter \cup {Append(q, x) : <<q, x>> \in
                           {qx \in shorter \X S : qx[2] \notin Range(qx[1])}}

ClosureInit ==
  /\ pc = "items"
  /\ orig \in Catalogue
  /\ grammar = augmentGrammar(orig)
  /\ kernel \in DistinctSeqs(AllItems(grammar), MaxItems)
  /\ closed = <<>>
  /\ states = <<>>
  /\ FFIdle /\ TableIdle /\ SimIdle

closureFrame == <<orig, grammar, ffVars, states, tableVars, simVars, kernel>>

\* getClosure(items, grammar)
ClosureCall ==
  /\ pc = "items"
  /\ closed' = getClosure(kernel, grammar)
  /\ pc' = "closure"
  /\ UNCHANGED closureFrame

\* getClosure(closure, grammar), on the array the first call returned
ClosureAgain ==
  /\ pc = "closure"
  /\ closed' = getClosure(closed, grammar)
  /\ pc' = "closure of closure"
  /\ UNCHANGED closureFrame

ClosureNext == ClosureCall \/ ClosureAgain

SpecClosure == ClosureInit /\ [][ClosureNext]_vars

\* the items (p, 0) that the items of S ask for: p's head follows a dot
Asked(S, g) ==
  {Item(g.productions[i].id, 0) : i \in
     {j \in DOMAIN g.productions :
        \E it \in S : SymbolAfterDot(g, it) = <<g.productions[j].head>>
                      /\ g.productions[j].head \in Range(g.nonTerminals)}}

\* the least superset of S closed under Asked, by iteration from S
RECURSIVE LeastClosed(_, _)
LeastClosed(S, g) ==
  IF Asked(S, g) \subseteq S THEN S ELSE LeastClosed(S \cup Asked(S, g), g)

Closed == pc \in {"closure", "closure of closure"}

\* C18: for every duplicate-free item set I, getClosure(I, grammar) returns
\* the least superset of I in which every item with a nonterminal N after the
\* dot is accompanied by (p, 0) for every production p with head N; the
\* result contains no two value-equal items, and getClosure applied to the
\* result returns the same set.
C18_ClosureIsLeast ==
  Closed =>
    /\ Range(kernel) \subseteq Range(closed)
    /\ Asked(Range(closed), grammar) \subseteq Range(closed)
    /\ Range(closed) = LeastClosed(Range(kernel), grammar)
    /\ \A i, j \in DOMAIN closed : areItemsEqual(closed[i], closed[j]) => i = j
    /\ Range(getClosure(closed, grammar)) = Range(closed)
    /\ pc = "closure of closure" => getClosure(closed, grammar) = closed

\* the call added items that were asked for by items it had added itself
C18_Witness ==
  /\ pc = "closure of closure" /\ kernel # <<>>
  /\ Range(closed) # Range(kernel) \cup Asked(Range(kernel), grammar)

---------------------------------------------------------------------------
(* Claims about the effect of one reduction                                 *)

MaxStackLen == 3   \* entries of a supplied initial stack that a reduction can pop into

\* opts.initialStack up to MaxStackLen state ids, opts.initialSymbols absent or
\* of one symbol
DeepOpts(g, sts) ==
  {[initialStack |-> st, initialSymbols |-> sy] :
     st \in SeqsUpTo(0..(Len(sts) - 1), MaxStackLen),
     sy \in SeqsUpTo(Range(g.terminals) \cup NTs(g), 1)}

DeepStart ==
  /\ pc = "input"
  /\ \E in \in ResumeInputs(orig), o \in DeepOpts(grammar, states) : SimBegin(in, o)

DeepNext ==
  \/ DeepStart \/ TokenStep \/ TokensDone
  \/ SimError \/ SimShift \/ SimReduce \/ SimAccept

SpecDeep == ResumeInit /\ [][DeepNext]_vars

\* the reduce branch ran and found its goto entry
ReduceSucceeds ==
  /\ ReducePending
  /\ GotoAt(table, Top(PopN(stack, PendingPop)), PendingProd.head) # <<>>
  /\ SimReduce

\* the stack lost its top n entries and gained x; what lay beneath is kept
Replaced(old, new, n, x) ==
  /\ Len(old) >= n
  /\ new = Append(SubSeq(old, 1, Len(old) - n), x)

ReduceEffect ==
  LET p      == PendingProd
      n      == PendingPop
      target == GotoAt(table, Top(PopN(stack, n)), p.head)[1]
      newId  == nodeStack'[Len(nodeStack')]
      made   == nodes'[newId + 1]
  IN  /\ Replaced(stack, stack', n, target)
      /\ Replaced(symbols, symbols', n, p.head)
      /\ Len(nodeStack) >= n /\ Len(nodeStack') = Len(nodeStack) - n + 1
      /\ SubSeq(nodeStack', 1, Len(nodeStack) - n) = SubSeq(nodeStack, 1, Len(nodeStack) - n)
      /\ newId + 1 \in DOMAIN nodes' /\ newId + 1 \notin DOMAIN nodes
      /\ SubSeq(nodes', 1, Len(nodes)) = nodes
      /\ made.label = p.head
      /\ IF n = 0 /\ p.body = <<EPS>>
         THEN /\ Len(made.children) = 1
              /\ made.children[1] + 1 \in (DOMAIN nodes') \ (DOMAIN nodes)
              /\ nodes'[made.children[1] + 1] = Node(EPS, <<>>, <<>>)
         ELSE made.children = SubSeq(nodeStack, Len(nodeStack) - n + 1, Len(nodeStack))
      /\ inputIdx' = inputIdx
      /\ Len(steps') = Len(steps) + 2
      /\ SubSeq(steps', 1, Len(steps)) = steps
      /\ IsReduce(steps'[Len(steps) + 1]) /\ IsGoTo(steps'[Len(steps) + 2])

\* C19: every successful Reduce(p) pops exactly len(body(p)) entries (none for
\* the empty body) from each of the state, symbol and node stacks, pushes the
\* goto target, head(p) and one new node labelled head(p) whose children are
\* the popped nodes in their order (or one new empty-marker leaf), leaves the
\* input cursor and the entries beneath unchanged, and appends exactly a
\* Reduce step followed by a GoTo step.
C19_ReduceEffect == [][ReduceSucceeds => ReduceEffect]_vars

\* C19 for the calls that start from the initial stacks [0], ['$']
C19_ReduceEffectFromScratch == [][(FromScratch /\ ReduceSucceeds) => ReduceEffect]_vars

---------------------------------------------------------------------------
(* computeFirstFollow alone, one production at a time: cursor.k is the      *)
(* production the forEach of the current pass is at, 0 at the loop test.    *)
(* The statements follow each other, so a step that can be taken is taken.  *)

FFInit ==
  /\ pc = "ff"
  /\ orig \in Grammars
  /\ grammar = augmentGrammar(orig)
  /\ states = <<>>
  /\ table = EmptyTable /\ installed = <<>> /\ cursor = [k |-> 0]
  /\ FFIdle /\ SimIdle /\ ClosureIdle

ffFrame == <<orig, closureVars, grammar, states, table, installed, simVars>>

\* k + 1 inside the pass, 0 after its last production
NextProd(k) == IF k < Len(grammar.productions) THEN k + 1 ELSE 0

\* lines 106-107 and 127-128: the loop test passes, the flag is cleared
PassBegin ==
  /\ pc \in {"first", "follow"} /\ cursor.k = 0 /\ changed
  /\ changed' = FALSE
  /\ cursor' = [k |-> 1]
  /\ UNCHANGED <<pc, first, follow, ffFrame>>

\* lines 108-119 for the production the pass is at
FirstProdStep ==
  /\ pc = "first" /\ cursor.k > 0
  /\ LET r == FirstPassFrom([first |-> first, changed |-> changed],
                            <<grammar.productions[cursor.k]>>, 1)
     IN  first' = r.first /\ changed' = r.changed
  /\ cursor' = [k |-> NextProd(cursor.k)]
  /\ UNCHANGED <<pc, follow, ffFrame>>

\* lines 106, 122-126: the first loop's test fails
FirstExit == cursor.k = 0 /\ FollowSeedStep

\* lines 129-149 for the production the pass is at
FollowProdStep ==
  /\ pc = "follow" /\ cursor.k > 0
  /\ LET r == FollowBody([follow |-> follow, changed |-> changed], first, grammar,
                         grammar.productions[cursor.k], 1)
     IN  follow' = r.follow /\ changed' = r.changed
  /\ cursor' = [k |-> NextProd(cursor.k)]
  /\ UNCHANGED <<pc, first, ffFrame>>

\* lines 127, 152: the second loop's test fails
FollowExit == cursor.k = 0 /\ FFReturn

FFNext ==
  \/ FFStart \/ PassBegin \/ FirstProdStep \/ FirstExit \/ FollowProdStep \/ FollowExit

SpecFF == FFInit /\ [][FFNext]_vars /\ WF_vars(FFNext)

\* every set of the family a is contained in its set of the family b
Grows(a, b) == \A s \in DOMAIN a : s \in DOMAIN b /\ a[s] \subseteq b[s]

InLoops == pc \in {"first", "follow"}

\* the loop test is about to fail
AtExit == InLoops /\ cursor.k = 0 /\ ~changed

\* C20: both fixed-point loops of computeFirstFollow terminate; during them
\* no FIRST or FOLLOW set ever loses an element; and each loop exits only
\* after a complete pass over all productions in which no set grew: the flag
\* the loop test reads is set exactly by the productions that grew a set, a
\* loop is left only at its test with the flag clear, and there a complete
\* pass over the productions grows nothing.
C20_LoopsTerminate ==
  /\ <>(pc = "dfa")
  /\ [](pc = "dfa" => [first |-> first, follow |-> follow] = computeFirstFollow(grammar))
  /\ [][InLoops => (Grows(first, first') /\ Grows(follow, follow'))]_vars
  /\ [][(FirstProdStep => (changed' <=> (changed \/ first' # first))) /\
        (FollowProdStep => (changed' <=> (changed \/ follow' # follow)))]_vars
  /\ [][(InLoops /\ pc' # pc) => AtExit]_vars
  /\ []((AtExit /\ pc = "first") =>
          FirstPass(first, grammar) = [first |-> first, changed |-> FALSE])
  /\ []((AtExit /\ pc = "follow") =>
          FollowPass(follow, first, grammar) = [follow |-> follow, changed |-> FALSE])

\* computeFirstFollow returned after passes that grew FIRST and FOLLOW sets
\* of nonterminals beyond their initial and seeded contents
C20_Witness ==
  /\ pc = "dfa"
  /\ first # InitFirst(grammar)
  /\ follow # SeedFollow(InitFollow(grammar), grammar)

---------------------------------------------------------------------------
(* Claims about the stacks as a path of the automaton                       *)

\* states[s].transitions[X], <<>> when undefined
TransitionOf(s, X) ==
  IF s + 1 \in DOMAIN states /\ X \in DOMAIN states[s + 1].transitions
  THEN <<states[s + 1].transitions[X]>>
  ELSE <<>>

\* the state stack is the path the symbol stack spells from its bottom state
IsPath(st, sy) ==
  /\ Len(st) = Len(sy)
  /\ \A i \in 2..Len(st) : TransitionOf(st[i - 1], sy[i]) = <<st[i]>>

\* the top n entries of a stack, bottom first, <<>> when it holds fewer
TopSymbols(sy, n) == IF Len(sy) >= n THEN SubSeq(sy, Len(sy) - n + 1, Len(sy)) ELSE <<>>

\* the symbols a reduction by p takes off the stack: none for the empty marker
BodySymbols(p) == IF IsEmptyProd(p) THEN <<>> ELSE p.body

\* the steps that are Reduce steps, each with the production it names
ReduceSteps ==
  {kp \in (DOMAIN steps) \X (DOMAIN grammar.productions) :
     steps[kp[1]].action = ReduceLabel(grammar.productions[kp[2]])}

PathInEveryStep == \A k \in DOMAIN steps : IsPath(steps[k].stack, steps[k].symbols)

\* C21 as stated: in a from-scratch simulation every emitted step has a state
\* stack that is the automaton path spelled by its symbol stack, and at each
\* Reduce(p) step the top len(body(p)) symbols equal body(p), the body of the
\* empty production being the one-element array of the empty marker.
C21_PathAndBody ==
  FromScratch =>
    /\ PathInEveryStep
    /\ \A kp \in ReduceSteps :
         LET p == grammar.productions[kp[2]]
         IN  TopSymbols(steps[kp[1]].symbols, Len(p.body)) = p.body

\* C21 with the empty production taking no symbol: every emitted step has a
\* state stack that is the automaton path spelled by its symbol stack, and at
\* each Reduce(p) step the top symbols equal body(p), where the body of the
\* empty production counts as no symbols.
C21_PathAndPoppedBody ==
  FromScratch =>
    /\ PathInEveryStep
    /\ \A kp \in ReduceSteps :
         LET p == grammar.productions[kp[2]]
         IN  /\ Len(steps[kp[1]].symbols) > Len(BodySymbols(p))
             /\ TopSymbols(steps[kp[1]].symbols, Len(BodySymbols(p))) = BodySymbols(p)

\* a returned run that reduced by an empty production and by a production
\* with two or more body symbols
C21_Witness ==
  /\ Returned /\ FromScratch
  /\ \E kp \in ReduceSteps : IsEmptyProd(grammar.productions[kp[2]])
  /\ \E kp \in ReduceSteps : Len(grammar.productions[kp[2]].body) >= 2

---------------------------------------------------------------------------
(* Claims about the end-of-input marker                                     *)

Tokenized == pc \in {"sim", "returned"}

\* the positions of the token array that hold the end-of-input marker
MarkerAt == {i \in DOMAIN tokens : tokens[i] = EOI}

\* C22: for every input string, ones containing the character $ included, the
\* end-of-input marker occurs in the token sequence only as its last element,
\* and the remaining input recorded in an Accept step is exactly the single
\* end-of-input marker: acceptance never happens with unconsumed input.
C22_MarkerOnlyLast ==
  Tokenized =>
    /\ MarkerAt = {Len(tokens)}
    /\ \A k \in DOMAIN steps : steps[k].action = "Accept" => steps[k].input = <<EOI>>

\* C22 for the inputs that do not contain the character $
C22_MarkerOnlyLastUntyped ==
  (Tokenized /\ \A i \in 1..Len(inputStr) : SubSeq(inputStr, i, i) # EOI) =>
    /\ MarkerAt = {Len(tokens)}
    /\ \A k \in DOMAIN steps : steps[k].action = "Accept" => steps[k].input = <<EOI>>

====
